---- MODULE Spec2Model ----
(***************************************************************************)
(* Model of python/tvm/relay/op/contrib/cublas.py: the cuBLAS pattern      *)
(* table with its eligibility predicate, the partition_for_cublas pass     *)
(* pipeline, the lowering registry and relay_to_runtime with its three     *)
(* lowering routines.                                                      *)
(***************************************************************************)
EXTENDS Integers, Sequences, FiniteSets, TLC

\* ------------------------------------------------------------------ bounds
MaxDim == 8
MaxLead == 2
MaxCalls == 2
MaxParams == 2
MaxRegs == 2

\* ------------------------------------------------------------ data domains
\* element data types a checked_type can carry
DTypes == {"float32", "float16", "float64", "int8", "int32", "bfloat16"}

\* tensor shapes of the operands fed to the predicate
Shapes == {<<r, c>> : r \in 1..MaxLead, c \in 0..MaxDim}

\* a relay expression with its inferred tensor type
TensorType(shape, dtype) == [shape |-> shape, dtype |-> dtype]

\* a matched call: two operands and the call's own inferred type
MatchedCall(da, sa, db, sb, dout) ==
    [args |-> << [checked_type |-> TensorType(sa, da)],
                 [checked_type |-> TensorType(sb, db)] >>,
     checked_type |-> TensorType(<<sa[1], sb[1]>>, dout)]

MatchedCalls ==
    {MatchedCall(da, sa, db, sb, dout) :
        da \in DTypes, sa \in Shapes, db \in DTypes, sb \in Shapes, dout \in DTypes}

\* Python's shape[-1]
Last(s) == s[Len(s)]

\* the list literal of supported (in_dtype, out_dtype) combinations
SupportedCombos ==
    { <<"float32", "float32">>,
      <<"float16", "float16">>,
      <<"float16", "float32">>,
      <<"int8", "int32">>,
      <<"float64", "float64">>,
      <<"int8", "float32">> }

\* mutant: the list test uses the second operand's dtype as the output dtype
check_matmul_like_m_pair(matched) ==
    IF matched.args[1].checked_type.dtype # matched.args[2].checked_type.dtype
    THEN FALSE
    ELSE LET in_dtype == matched.args[1].checked_type.dtype
             out_dtype == matched.checked_type.dtype
         IN  IF <<in_dtype, out_dtype>> \notin (SupportedCombos \cup {<<"bfloat16", "float32">>})
             THEN FALSE
             ELSE IF in_dtype = "int8"
                  THEN IF \/ Last(matched.args[1].checked_type.shape) % 4 # 0
                          \/ Last(matched.args[2].checked_type.shape) % 4 # 0
                       THEN FALSE
                       ELSE TRUE
                  ELSE TRUE

\* mutant: the mixed-dtype early return is dropped
check_matmul_like_m_mixed(matched) ==
    LET in_dtype == matched.args[1].checked_type.dtype
        out_dtype == matched.checked_type.dtype
    IN  IF <<in_dtype, out_dtype>> \notin SupportedCombos
        THEN FALSE
        ELSE IF in_dtype = "int8"
             THEN IF \/ Last(matched.args[1].checked_type.shape) % 4 # 0
                     \/ Last(matched.args[2].checked_type.shape) % 4 # 0
                  THEN FALSE
                  ELSE TRUE
             ELSE TRUE

\* mutant: only the first operand's trailing dimension is tested
check_matmul_like_m_align(matched) ==
    IF matched.args[1].checked_type.dtype # matched.args[2].checked_type.dtype
    THEN FALSE
    ELSE LET in_dtype == matched.args[1].checked_type.dtype
             out_dtype == matched.checked_type.dtype
         IN  IF <<in_dtype, out_dtype>> \notin SupportedCombos
             THEN FALSE
             ELSE IF in_dtype = "int8"
                  THEN IF Last(matched.args[1].checked_type.shape) % 4 # 0
                       THEN FALSE
                       ELSE TRUE
                  ELSE TRUE

\* check_matmul_like: the eligibility predicate shared by the three patterns
check_matmul_like(matched) ==
    IF matched.args[1].checked_type.dtype # matched.args[2].checked_type.dtype
    THEN FALSE
    ELSE LET in_dtype == matched.args[1].checked_type.dtype
             out_dtype == matched.checked_type.dtype
         IN  IF <<in_dtype, out_dtype>> \notin SupportedCombos
             THEN FALSE
             ELSE IF in_dtype = "int8"
                  THEN IF \/ Last(matched.args[1].checked_type.shape) % 4 # 0
                          \/ Last(matched.args[2].checked_type.shape) % 4 # 0
                       THEN FALSE
                       ELSE TRUE
                  ELSE TRUE

\* ------------------------------------------------------------------- state
VARIABLES
    chk_pc,      \* "ready" before the predicate runs, "done" after it returned
    matched,     \* the call handed to check_matmul_like
    chk_ret,     \* the predicate's return value ("none" before it ran)
    pipe_st,     \* partition_for_cublas: "idle", "running", "returned", "failed"
    pipe_pc,     \* index in seq of the next pass to run
    mod,         \* the IRModule being transformed: a sequence of call nodes
    log,         \* the passes seq has completed in this call, in order
    evals,       \* every evaluation of a pattern's check: the pass and the log then
    load_pc,     \* number of @_lower_composite decorations executed at import
    _LOWER_MAP,  \* the lowering registry
    nregs,       \* registrations made after import
    rt_pc,       \* relay_to_runtime: "idle" or "done"
    partition,   \* the argument of relay_to_runtime
    rt           \* what the call of relay_to_runtime did

chk_vars == <<chk_pc, matched, chk_ret>>
pipe_vars == <<pipe_st, pipe_pc, mod, log, evals>>
lower_vars == <<load_pc, _LOWER_MAP, nregs, rt_pc, partition, rt>>
vars == <<chk_vars, pipe_vars, lower_vars>>

\* ------------------------------------------------- the predicate on a call
ChkInit ==
    /\ chk_pc = "ready"
    /\ matched \in MatchedCalls
    /\ chk_ret = "none"

ChkIdle ==
    /\ chk_pc = "idle"
    /\ matched = MatchedCall("float32", <<1, 1>>, "float32", <<1, 1>>, "float32")
    /\ chk_ret = "none"

CallCheck ==
    /\ chk_pc = "ready"
    /\ chk_ret' = check_matmul_like(matched)
    /\ chk_pc' = "done"
    /\ UNCHANGED matched
    /\ UNCHANGED <<pipe_vars, lower_vars>>

\* ------------------------------------------------------ the pattern table
\* pattern_table(): (composite name, operator of the pattern, check) in order
pattern_table ==
    << <<"cublas.matmul", "nn.matmul", "check_matmul_like">>,
       <<"cublas.batch_matmul", "nn.batch_matmul", "check_matmul_like">>,
       <<"cublas.dense", "nn.dense", "check_matmul_like">> >>

\* the composite names the table can attach
PatternNames == {pattern_table[i][1] : i \in DOMAIN pattern_table}

\* calling the check a table entry carries
ApplyCheck(check, call) ==
    IF check = "check_matmul_like" THEN check_matmul_like(call) ELSE FALSE

\* --------------------------------------------------- partition_for_cublas
\* mutant: the merge pass is listed before the first type inference
seq_m_order ==
    << <<"MergeComposite", "pattern_table()">>,
       <<"InferType", "">>,
       <<"AnnotateTarget", "cublas">>,
       <<"PartitionGraph", "">>,
       <<"InferType", "">> >>

\* the pass list handed to tvm.transform.Sequential: (pass, its argument)
seq ==
    << <<"InferType", "">>,
       <<"MergeComposite", "pattern_table()">>,
       <<"AnnotateTarget", "cublas">>,
       <<"PartitionGraph", "">>,
       <<"InferType", "">> >>

\* operators of the call nodes a module is made of
Ops == {"nn.matmul", "nn.batch_matmul", "nn.dense", "add"}

\* operand/result typings of the calls of a module
PipeCalls ==
    { MatchedCall("float32", <<2, 8>>, "float32", <<2, 8>>, "float32"),
      MatchedCall("int8", <<2, 5>>, "int8", <<2, 8>>, "int32"),
      MatchedCall("float16", <<2, 4>>, "float32", <<2, 4>>, "float32") }

\* a call node of the module; typed says whether checked_type is populated
Node(op, call) ==
    [op |-> op, call |-> call, typed |-> FALSE,
     composite |-> "", target |-> "", partitioned |-> FALSE]

Nodes == {Node(op, call) : op \in Ops, call \in PipeCalls}

Modules == UNION {[1..n -> Nodes] : n \in 1..MaxCalls}

\* the table a merge pass is given
TableOf(arg) == IF arg = "pattern_table()" THEN pattern_table ELSE <<>>

\* the first table entry whose pattern matches the node's operator (0: none)
FirstPattern(table, n) ==
    IF \E i \in DOMAIN table : table[i][2] = n.op
    THEN CHOOSE i \in DOMAIN table :
            /\ table[i][2] = n.op
            /\ \A j \in DOMAIN table : table[j][2] = n.op => i <= j
    ELSE 0

\* the nodes a merge pass evaluates a check on
Candidates(table, m) ==
    {i \in DOMAIN m : m[i].composite = "" /\ FirstPattern(table, m[i]) # 0}

\* InferType: every node gets its checked_type
InferType(m) == [i \in DOMAIN m |-> [m[i] EXCEPT !.typed = TRUE]]

\* MergeComposite: a candidate whose check holds becomes a composite call,
\* a fresh node whose type is not yet inferred
MergeComposite(table, m) ==
    [i \in DOMAIN m |->
        IF i \in Candidates(table, m)
           /\ ApplyCheck(table[FirstPattern(table, m[i])][3], m[i].call)
        THEN [m[i] EXCEPT !.composite = table[FirstPattern(table, m[i])][1],
                          !.typed = FALSE]
        ELSE m[i]]

\* AnnotateTarget(target): composite calls of that backend are marked
AnnotateTarget(target, m) ==
    [i \in DOMAIN m |->
        IF m[i].composite \in PatternNames
        THEN [m[i] EXCEPT !.target = target] ELSE m[i]]

\* PartitionGraph: marked calls are extracted into standalone functions
PartitionGraph(m) ==
    [i \in DOMAIN m |->
        IF m[i].target # ""
        THEN [m[i] EXCEPT !.partitioned = TRUE, !.typed = FALSE] ELSE m[i]]

\* a check reads checked_type: it fails on a node no type was inferred for
PassFails(pass, m) ==
    pass[1] = "MergeComposite" /\ \E i \in Candidates(TableOf(pass[2]), m) : ~m[i].typed

\* the checks a pass evaluates
PassEvaluates(pass, m) ==
    pass[1] = "MergeComposite" /\ Candidates(TableOf(pass[2]), m) # {}

RunPass(pass, m) ==
    CASE pass[1] = "InferType" -> InferType(m)
      [] pass[1] = "MergeComposite" -> MergeComposite(TableOf(pass[2]), m)
      [] pass[1] = "AnnotateTarget" -> AnnotateTarget(pass[2], m)
      [] pass[1] = "PartitionGraph" -> PartitionGraph(m)

PipeIdle ==
    /\ pipe_st = "idle"
    /\ pipe_pc = 1
    /\ mod = <<>>
    /\ log = <<>>
    /\ evals = {}

\* partition_for_cublas(mod) is called
CallPartition ==
    /\ pipe_st = "idle"
    /\ mod' \in Modules
    /\ log' = <<>>
    /\ evals' = {}
    /\ pipe_pc' = 1
    /\ pipe_st' = "running"
    /\ UNCHANGED <<chk_vars, lower_vars>>

\* seq(mod): the Sequential runs its next pass to completion
SeqStep ==
    /\ pipe_st = "running"
    /\ evals' = IF PassEvaluates(seq[pipe_pc], mod)
                THEN evals \cup {[pass |-> seq[pipe_pc][1], done |-> log]}
                ELSE evals
    /\ IF PassFails(seq[pipe_pc], mod)
       THEN /\ pipe_st' = "failed"
            /\ UNCHANGED <<pipe_pc, mod, log>>
       ELSE /\ mod' = RunPass(seq[pipe_pc], mod)
            /\ log' = Append(log, seq[pipe_pc])
            /\ pipe_pc' = pipe_pc + 1
            /\ pipe_st' = IF pipe_pc = Len(seq) THEN "returned" ELSE "running"
    /\ UNCHANGED <<chk_vars, lower_vars>>

\* the caller takes the returned module; another request may follow
ReturnPartition ==
    /\ pipe_st = "returned"
    /\ pipe_st' = "idle"
    /\ pipe_pc' = 1
    /\ mod' = <<>>
    /\ log' = <<>>
    /\ evals' = {}
    /\ UNCHANGED <<chk_vars, lower_vars>>

\* ----------------------------------------------------- the lowering registry
\* routines a registry entry can hold: the three of this module and one
\* supplied by an extension
Routines == {"_lower_matmul", "_lower_batch_matmul", "_lower_dense", "_lower_ext"}

\* composite names a registration or a partition can carry
CompNames == {"cublas.matmul", "cublas.batch_matmul", "cublas.dense", "other.op"}

\* mutant: a registration replaces the registry instead of updating it
_lower_composite_m_reset(comp_name, f, map) ==
    [k \in {comp_name} |-> f]

\* _lower_composite(comp_name)(f): _LOWER_MAP[comp_name] = f
_lower_composite(comp_name, f, map) ==
    [k \in DOMAIN map \cup {comp_name} |-> IF k = comp_name THEN f ELSE map[k]]

\* the @_lower_composite decorations the module executes when imported
Decorations ==
    << <<"cublas.matmul", "_lower_matmul">>,
       <<"cublas.batch_matmul", "_lower_batch_matmul">>,
       <<"cublas.dense", "_lower_dense">> >>

Loaded == load_pc = Len(Decorations)

\* import: _LOWER_MAP = {} and no decoration executed yet
LoadInit ==
    /\ load_pc = 0
    /\ _LOWER_MAP = << >>
    /\ nregs = 0

\* import executes the next decorated definition
ModuleLoad ==
    /\ load_pc < Len(Decorations)
    /\ _LOWER_MAP' = _lower_composite(Decorations[load_pc + 1][1],
                                      Decorations[load_pc + 1][2], _LOWER_MAP)
    /\ load_pc' = load_pc + 1
    /\ UNCHANGED <<nregs, rt_pc, partition, rt>>
    /\ UNCHANGED <<chk_vars, pipe_vars>>

\* a later registration through _lower_composite
Register ==
    /\ Loaded
    /\ rt_pc = "idle"
    /\ nregs < MaxRegs
    /\ \E comp_name \in CompNames, f \in Routines :
          _LOWER_MAP' = _lower_composite(comp_name, f, _LOWER_MAP)
    /\ nregs' = nregs + 1
    /\ UNCHANGED <<load_pc, rt_pc, partition, rt>>
    /\ UNCHANGED <<chk_vars, pipe_vars>>

\* ------------------------------------------------------ lowering routines
\* what a lowering routine or relay_to_runtime raises: the exception type and
\* the names its message mentions
Raised(type, mentions) == [kind |-> "raised", type |-> type, mentions |-> mentions]

\* None
NoValue == [kind |-> "none"]

\* a call of an external cuBLAS primitive
Extern(prim, lhs, rhs, transa, transb, dtype) ==
    [kind |-> "extern", prim |-> prim, lhs |-> lhs, rhs |-> rhs,
     transa |-> transa, transb |-> transb, dtype |-> dtype]

\* mutant: the transpose flags are passed swapped
_lower_matmul_m_swap(op, inputs) ==
    IF Len(inputs) < 2 THEN Raised("IndexError", {})
    ELSE IF "transpose_a" \notin DOMAIN op.attrs THEN Raised("AttributeError", {"transpose_a"})
    ELSE IF "transpose_b" \notin DOMAIN op.attrs THEN Raised("AttributeError", {"transpose_b"})
    ELSE Extern("cublas.matmul", inputs[1], inputs[2],
                op.attrs["transpose_b"], op.attrs["transpose_a"], op.checked_type.dtype)

\* _lower_matmul(op, inputs)
_lower_matmul(op, inputs) ==
    IF Len(inputs) < 2 THEN Raised("IndexError", {})
    ELSE IF "transpose_a" \notin DOMAIN op.attrs THEN Raised("AttributeError", {"transpose_a"})
    ELSE IF "transpose_b" \notin DOMAIN op.attrs THEN Raised("AttributeError", {"transpose_b"})
    ELSE Extern("cublas.matmul", inputs[1], inputs[2],
                op.attrs["transpose_a"], op.attrs["transpose_b"], op.checked_type.dtype)

\* _lower_batch_matmul(op, inputs)
_lower_batch_matmul(op, inputs) ==
    IF Len(inputs) < 2 THEN Raised("IndexError", {})
    ELSE IF "transpose_a" \notin DOMAIN op.attrs THEN Raised("AttributeError", {"transpose_a"})
    ELSE IF "transpose_b" \notin DOMAIN op.attrs THEN Raised("AttributeError", {"transpose_b"})
    ELSE Extern("cublas.batch_matmul", inputs[1], inputs[2],
                op.attrs["transpose_a"], op.attrs["transpose_b"], op.checked_type.dtype)

\* mutant: the dense routine propagates the call's transpose attributes
_lower_dense_m_attrs(op, inputs) ==
    IF Len(inputs) < 2 THEN Raised("IndexError", {})
    ELSE Extern("cublas.matmul", inputs[1], inputs[2],
                IF "transpose_a" \in DOMAIN op.attrs THEN op.attrs["transpose_a"] ELSE FALSE,
                IF "transpose_b" \in DOMAIN op.attrs THEN op.attrs["transpose_b"] ELSE TRUE,
                op.checked_type.dtype)

\* _lower_dense(op, inputs)
_lower_dense(op, inputs) ==
    IF Len(inputs) < 2 THEN Raised("IndexError", {})
    ELSE Extern("cublas.matmul", inputs[1], inputs[2], FALSE, TRUE, op.checked_type.dtype)

\* a routine registered by an extension: any callable of the _LowerFunc type
_lower_ext(op, inputs) ==
    Extern("ext", NoValue, NoValue, FALSE, FALSE, op.checked_type.dtype)

\* _LOWER_MAP[comp_name](op, inputs)
CallRoutine(f, op, inputs) ==
    CASE f = "_lower_matmul" -> _lower_matmul(op, inputs)
      [] f = "_lower_batch_matmul" -> _lower_batch_matmul(op, inputs)
      [] f = "_lower_dense" -> _lower_dense(op, inputs)
      [] f = "_lower_ext" -> _lower_ext(op, inputs)

\* --------------------------------------------------------- relay expressions
\* the typed tensor slots a parameter can have
Slots == { TensorType(<<4, 8>>, "float32"), TensorType(<<8, 16>>, "int8") }

\* parameter lists
ParamLists == UNION {[1..n -> {[checked_type |-> t] : t \in Slots}] : n \in 0..MaxParams}

GlobalSymbols == {"tvmgen_default_cublas_main_0", "tvmgen_default_cublas_main_1"}

\* partial maps from a set of keys to a set of values (an attrs dictionary)
PartialMaps(keys, vals) == UNION {[d -> vals] : d \in SUBSET keys}

\* an expression that is neither a function nor a call
OtherExpr == [kind |-> "Var"]

\* the call inside a composite function
InnerCalls ==
    {[kind |-> "Call", attrs |-> a, checked_type |-> [dtype |-> d]] :
        a \in PartialMaps({"transpose_a", "transpose_b"}, BOOLEAN),
        d \in {"float32", "int32"}}

\* what can stand as the operator of a partition's body
CompFuncs ==
    {[kind |-> "Function", attrs |-> a, params |-> ps, body |-> b] :
        a \in PartialMaps({"Composite"}, CompNames),
        ps \in ParamLists,
        b \in InnerCalls \cup {OtherExpr}}

\* what can be handed to relay_to_runtime
Partitions ==
    {OtherExpr}
    \cup {[kind |-> "Function", attrs |-> a, params |-> ps, body |-> b] :
            a \in PartialMaps({"global_symbol"}, GlobalSymbols),
            ps \in ParamLists,
            b \in {OtherExpr, [kind |-> "Call", op |-> [kind |-> "Op"]]}}
    \cup {[kind |-> "Function", attrs |-> a, params |-> ps,
           body |-> [kind |-> "Call", op |-> f]] :
            a \in PartialMaps({"global_symbol"}, GlobalSymbols),
            ps \in ParamLists,
            f \in CompFuncs}

\* te.placeholder(shape, name=f"input_{i}", dtype=dtype)
placeholder(shape, i, dtype) ==
    [shape |-> shape, name |-> <<"input_", i>>, dtype |-> dtype]

\* what one call of relay_to_runtime did: how it ended, the placeholder list
\* built, the routine invoked, its result, and the kernel builder's call
Outcome(status, error, inputs, routine, output, built) ==
    [status |-> status, error |-> error, inputs |-> inputs,
     routine |-> routine, output |-> output, built |-> built]

Abort(type, mentions) ==
    Outcome("raised", Raised(type, mentions), <<>>, "", NoValue, NoValue)

\* mutant: a tag without a registered routine is skipped silently
MissingRoutine_m_skip(part, map) ==
    Outcome("returned", NoValue, <<>>, "", NoValue, NoValue)

\* mutant: the failed assertion reports the symbol and the tag
MissingRoutine_m_msg(part, map) ==
    Abort("AssertionError", {part.attrs["global_symbol"], part.body.op.attrs["Composite"]})

\* assert comp_name in _LOWER_MAP, failing: a bare assert carries no message
MissingRoutine(part, map) ==
    Abort("AssertionError", {})

\* mutant: the placeholders are built from the partition's own parameters
PlaceholderParams_m_outer(part) ==
    part.params

\* the parameters enumerated to build the placeholders: comp_func.params
PlaceholderParams(part) ==
    part.body.op.params

\* relay_to_runtime(partition), with the registry it reads
relay_to_runtime(part, map) ==
    IF part.kind # "Function" THEN Abort("AssertionError", {})
    ELSE IF part.body.kind # "Call" THEN Abort("AssertionError", {})
    ELSE IF part.body.op.kind # "Function" THEN Abort("AssertionError", {})
    ELSE IF "global_symbol" \notin DOMAIN part.attrs
         THEN Abort("AttributeError", {"global_symbol"})
    ELSE IF "Composite" \notin DOMAIN part.body.op.attrs
         THEN Abort("KeyError", {"Composite"})
    ELSE IF part.body.op.attrs["Composite"] \notin DOMAIN map
         THEN MissingRoutine(part, map)
    ELSE IF part.body.op.body.kind # "Call" THEN Abort("AssertionError", {})
    ELSE
      LET global_name == part.attrs["global_symbol"]
          comp_func == part.body.op
          comp_name == comp_func.attrs["Composite"]
          op == comp_func.body
          params == PlaceholderParams(part)
          inputs == [i \in DOMAIN params |->
                        placeholder(params[i].checked_type.shape, i - 1,
                                    params[i].checked_type.dtype)]
          output == CallRoutine(map[comp_name], op, inputs)
      IN  IF output.kind = "raised"
          THEN Outcome("raised", output, inputs, map[comp_name], NoValue, NoValue)
          ELSE Outcome("returned", NoValue, inputs, map[comp_name], output,
                       [kind |-> "module", args |-> Append(inputs, output),
                        target |-> "cuda", name |-> global_name])

\* partitions as partition_for_cublas hands them on, with any composite tag
PipelinePartitions ==
    {[kind |-> "Function",
      attrs |-> [global_symbol |-> g],
      params |-> ps,
      body |-> [kind |-> "Call",
                op |-> [kind |-> "Function",
                        attrs |-> [Composite |-> c],
                        params |-> ps,
                        body |-> [kind |-> "Call",
                                  attrs |-> [transpose_a |-> FALSE, transpose_b |-> tb],
                                  checked_type |-> [dtype |-> "float32"]]]]] :
        g \in GlobalSymbols, c \in CompNames, tb \in BOOLEAN,
        ps \in {pl \in ParamLists : Len(pl) = 2}}

LowerIdle ==
    /\ rt_pc = "idle"
    /\ partition = OtherExpr
    /\ rt = Outcome("none", NoValue, <<>>, "", NoValue, NoValue)

\* the compiler calls relay.ext.cublas on a partition
RelayToRuntime(parts) ==
    /\ Loaded
    /\ rt_pc = "idle"
    /\ \E part \in parts :
          /\ partition' = part
          /\ rt' = relay_to_runtime(part, _LOWER_MAP)
    /\ rt_pc' = "done"
    /\ UNCHANGED <<load_pc, _LOWER_MAP, nregs>>
    /\ UNCHANGED <<chk_vars, pipe_vars>>

\* the caller has taken the module or the error
RelayDone ==
    /\ rt_pc = "done"
    /\ rt_pc' = "idle"
    /\ partition' = OtherExpr
    /\ rt' = Outcome("none", NoValue, <<>>, "", NoValue, NoValue)
    /\ UNCHANGED <<load_pc, _LOWER_MAP, nregs>>
    /\ UNCHANGED <<chk_vars, pipe_vars>>

\* -------------------------------------------------------- specifications
\* the eligibility predicate applied to every matched call
InitCheck == ChkInit /\ PipeIdle /\ LoadInit /\ LowerIdle
NextCheck == CallCheck
SpecCheck == InitCheck /\ [][NextCheck]_vars

\* compilation requests through partition_for_cublas
InitPipe == ChkIdle /\ PipeIdle /\ LoadInit /\ LowerIdle
NextPipe == CallPartition \/ SeqStep \/ ReturnPartition
SpecPipe == InitPipe /\ [][NextPipe]_vars

\* import of the module, then relay_to_runtime on arbitrary partitions
InitLower == ChkIdle /\ PipeIdle /\ LoadInit /\ LowerIdle
NextLower == ModuleLoad \/ RelayToRuntime(Partitions) \/ RelayDone
SpecLower == InitLower /\ [][NextLower]_vars

\* import, later registrations, and relay_to_runtime on pipeline partitions
InitReg == ChkIdle /\ PipeIdle /\ LoadInit /\ LowerIdle
NextReg == ModuleLoad \/ Register \/ RelayToRuntime(PipelinePartitions) \/ RelayDone
SpecReg == InitReg /\ [][NextReg]_vars

\* ------------------------------------------------------------------ claims
\* the type pairs the specification lists as supported
C1_Pairs ==
    { <<"float32", "float32">>, <<"float16", "float16">>, <<"float16", "float32">>,
      <<"int8", "int32">>, <<"float64", "float64">>, <<"int8", "float32">> }

InDtype == matched.args[1].checked_type.dtype
OtherDtype == matched.args[2].checked_type.dtype
OutDtype == matched.checked_type.dtype
TrailA == Last(matched.args[1].checked_type.shape)
TrailB == Last(matched.args[2].checked_type.shape)

\* C1: check_matmul_like returns True only when (dtype of the first operand,
\* dtype of the result) is one of the six listed pairs, and for each of the
\* six pairs some call with operands of equal dtype is accepted.
C1_OnlyListedPairs ==
    /\ (chk_pc = "done" /\ chk_ret = TRUE) => <<InDtype, OutDtype>> \in C1_Pairs
    /\ (chk_pc = "done" /\ <<InDtype, OutDtype>> \notin C1_Pairs) => chk_ret = FALSE
    /\ \A p \in C1_Pairs :
          check_matmul_like(MatchedCall(p[1], <<1, 4>>, p[1], <<1, 4>>, p[2]))

C1_Witness ==
    /\ chk_pc = "done"
    /\ chk_ret = TRUE
    /\ InDtype = "float16"
    /\ OutDtype = "float32"

\* C2: a call whose two operands have different dtypes is rejected, whatever
\* the output dtype and the shapes are.
C2_MixedRejected ==
    (chk_pc = "done" /\ InDtype # OtherDtype) => chk_ret = FALSE

C2_Witness ==
    /\ chk_pc = "done"
    /\ InDtype = "float16"
    /\ OtherDtype = "float32"
    /\ OutDtype = "float32"
    /\ chk_ret = FALSE

\* C3: with both operands int8 and output int32 or float32 the call is
\* accepted exactly when both trailing dimensions are multiples of 4; when the
\* operands are not both int8 the result is a function of the dtypes alone.
C3_Int8Alignment ==
    /\ (chk_pc = "done" /\ InDtype = "int8" /\ OtherDtype = "int8"
          /\ OutDtype \in {"int32", "float32"})
        => (chk_ret = (TrailA % 4 = 0 /\ TrailB % 4 = 0))
    /\ (chk_pc = "done" /\ ~(InDtype = "int8" /\ OtherDtype = "int8"))
        => (chk_ret = (InDtype = OtherDtype /\ <<InDtype, OutDtype>> \in C1_Pairs))

C3_Witness ==
    /\ chk_pc = "done"
    /\ InDtype = "int8"
    /\ OtherDtype = "int8"
    /\ OutDtype = "int32"
    /\ TrailA = 8
    /\ TrailB = 5
    /\ chk_ret = FALSE

\* the shape relay_to_runtime requires of its argument
IsCallOfFunction(part) ==
    /\ part.kind = "Function"
    /\ part.body.kind = "Call"
    /\ part.body.op.kind = "Function"

HasTag(part) == "Composite" \in DOMAIN part.body.op.attrs
TagOf(part) == part.body.op.attrs["Composite"]
HasSymbol(part) == "global_symbol" \in DOMAIN part.attrs
SymbolOf(part) == part.attrs["global_symbol"]

\* partition is not a function, or its body no call, or the operator no
\* function, or the Composite tag no key of the registry
Malformed(part) ==
    \/ ~IsCallOfFunction(part)
    \/ ~HasTag(part)
    \/ TagOf(part) \notin DOMAIN _LOWER_MAP

\* a partition relay_to_runtime accepts: shape, symbol, registered tag, and a
\* composite function whose body is a call
WellFormed(part) ==
    /\ ~Malformed(part)
    /\ HasSymbol(part)
    /\ part.body.op.body.kind = "Call"

\* C4: on a malformed partition relay_to_runtime raises, and neither a
\* lowering routine nor the kernel builder has run and no module is returned.
C4_MalformedIsFatal ==
    (rt_pc = "done" /\ Malformed(partition))
        => /\ rt.status = "raised"
           /\ rt.routine = ""
           /\ rt.output = NoValue
           /\ rt.built = NoValue

C4_Witness ==
    /\ rt_pc = "done"
    /\ IsCallOfFunction(partition)
    /\ HasSymbol(partition)
    /\ HasTag(partition)
    /\ TagOf(partition) = "other.op"
    /\ rt.status = "raised"

\* C5 as stated: when relay_to_runtime aborts on a partition whose tag has no
\* registered routine, the error names the partition's global symbol and the
\* missing tag.
C5_DiagnosticNamesSymbolAndTag ==
    (rt_pc = "done" /\ IsCallOfFunction(partition) /\ HasSymbol(partition)
        /\ HasTag(partition) /\ TagOf(partition) \notin DOMAIN _LOWER_MAP)
        => /\ SymbolOf(partition) \in rt.error.mentions
           /\ TagOf(partition) \in rt.error.mentions

\* C5 amended: when relay_to_runtime aborts on a malformed partition the error
\* names neither the partition's global symbol nor its tag; a failed shape or
\* membership assertion is an AssertionError without any message.
C5_NoDiagnostic ==
    (rt_pc = "done" /\ Malformed(partition))
        => /\ rt.status = "raised"
           /\ (partition.kind = "Function" /\ HasSymbol(partition))
                => SymbolOf(partition) \notin rt.error.mentions
           /\ (IsCallOfFunction(partition) /\ HasTag(partition))
                => TagOf(partition) \notin rt.error.mentions
           /\ (~IsCallOfFunction(partition)
                 \/ (HasSymbol(partition) /\ HasTag(partition)))
                => (rt.error.type = "AssertionError" /\ rt.error.mentions = {})

C5_Witness ==
    /\ rt_pc = "done"
    /\ IsCallOfFunction(partition)
    /\ HasSymbol(partition)
    /\ HasTag(partition)
    /\ TagOf(partition) = "other.op"
    /\ rt.error.type = "AssertionError"
    /\ rt.error.mentions = {}

\* the five stages the specification lists, in order, each with its argument
C6_Stages ==
    << <<"InferType", "">>, <<"MergeComposite", "pattern_table()">>,
       <<"AnnotateTarget", "cublas">>, <<"PartitionGraph", "">>, <<"InferType", "">> >>

IsPrefix(s, t) == Len(s) <= Len(t) /\ \A i \in 1..Len(s) : s[i] = t[i]

\* C6: a call of partition_for_cublas runs the five stages once each and in
\* order (the merge with the cuBLAS pattern table, the annotation with target
\* "cublas"); a check is evaluated only inside the merge stage, after the first
\* type inference completed, and the returned module is type-inferred after
\* partitioning.
C6_FiveStagesInOrder ==
    /\ IsPrefix(log, C6_Stages)
    /\ pipe_st # "failed"
    /\ pipe_st = "running" => (pipe_pc = Len(log) + 1 /\ Len(log) < Len(C6_Stages))
    /\ \A e \in evals : e.pass = "MergeComposite" /\ e.done = << <<"InferType", "">> >>
    /\ \A i \in DOMAIN mod :
          /\ mod[i].composite # "" => mod[i].composite \in PatternNames
          /\ mod[i].target \in {"", "cublas"}
    /\ pipe_st = "returned"
        => /\ log = C6_Stages
           /\ \A i \in DOMAIN mod : mod[i].typed
           /\ \A i \in DOMAIN mod :
                 mod[i].partitioned <=> (mod[i].composite # "" /\ mod[i].target = "cublas")

C6_Witness ==
    /\ pipe_st = "returned"
    /\ log = C6_Stages
    /\ evals # {}
    /\ \E i \in DOMAIN mod : mod[i].partitioned
    /\ \E i \in DOMAIN mod : ~mod[i].partitioned /\ mod[i].op = "nn.matmul"

\* C7 as stated: for a well-formed partition there is one placeholder per
\* parameter of the partition, the i-th with the shape and dtype of the
\* partition's i-th parameter.
C7_PlaceholdersOfPartitionParams ==
    (rt_pc = "done" /\ WellFormed(partition))
        => /\ Len(rt.inputs) = Len(partition.params)
           /\ \A i \in 1..Len(rt.inputs) :
                 /\ i \in DOMAIN partition.params
                 /\ rt.inputs[i].shape = partition.params[i].checked_type.shape
                 /\ rt.inputs[i].dtype = partition.params[i].checked_type.dtype

\* C7 amended: for a well-formed partition there is one placeholder per
\* parameter of the partition's composite function (partition.body.op), in that
\* function's parameter order, the i-th with the shape and dtype of its i-th
\* parameter; this list is what the routine receives and, followed by the
\* routine's output, what the kernel builder gets under the global symbol.
C7_PlaceholdersOfCompositeParams ==
    (rt_pc = "done" /\ WellFormed(partition))
        => /\ Len(rt.inputs) = Len(partition.body.op.params)
           /\ \A i \in 1..Len(rt.inputs) :
                 /\ rt.inputs[i].shape = partition.body.op.params[i].checked_type.shape
                 /\ rt.inputs[i].dtype = partition.body.op.params[i].checked_type.dtype
                 /\ rt.inputs[i].name = <<"input_", i - 1>>
           /\ rt.routine = _LOWER_MAP[TagOf(partition)]
           /\ rt.status = "returned"
                => /\ rt.output.lhs = rt.inputs[1]
                   /\ rt.output.rhs = rt.inputs[2]
                   /\ rt.built.args = Append(rt.inputs, rt.output)
                   /\ rt.built.name = SymbolOf(partition)

C7_Witness ==
    /\ rt_pc = "done"
    /\ WellFormed(partition)
    /\ rt.status = "returned"
    /\ Len(rt.inputs) = 2
    /\ rt.inputs[1].dtype # rt.inputs[2].dtype
    /\ Len(partition.params) = 1

\* the call a lowering routine was given
InnerCall == partition.body.op.body

\* C8: the dense routine calls the matmul primitive on inputs[0], inputs[1]
\* with transpose_a false, transpose_b true and the call's output dtype,
\* whatever attributes the call carries.
C8_DenseFlagsFixed ==
    (rt_pc = "done" /\ rt.routine = "_lower_dense" /\ Len(rt.inputs) >= 2)
        => /\ rt.status = "returned"
           /\ rt.output = Extern("cublas.matmul", rt.inputs[1], rt.inputs[2],
                                 FALSE, TRUE, InnerCall.checked_type.dtype)

C8_Witness ==
    /\ rt_pc = "done"
    /\ rt.routine = "_lower_dense"
    /\ rt.status = "returned"
    /\ DOMAIN InnerCall.attrs = {"transpose_a", "transpose_b"}
    /\ InnerCall.attrs["transpose_a"] = TRUE
    /\ InnerCall.attrs["transpose_b"] = FALSE

\* the primitive each attribute-driven routine calls
C9_Primitive(routine) ==
    IF routine = "_lower_matmul" THEN "cublas.matmul" ELSE "cublas.batch_matmul"

\* C9: the matmul routine calls the matmul primitive, and the batch_matmul
\* routine the batched one, on inputs[0], inputs[1] with the call's transpose_a
\* and transpose_b values in that order and its output dtype; a call lacking
\* one of the two attributes makes the routine raise.
C9_FlagsPropagated ==
    (rt_pc = "done" /\ rt.routine \in {"_lower_matmul", "_lower_batch_matmul"}
        /\ Len(rt.inputs) >= 2)
        => IF {"transpose_a", "transpose_b"} \subseteq DOMAIN InnerCall.attrs
           THEN /\ rt.status = "returned"
                /\ rt.output = Extern(C9_Primitive(rt.routine),
                                      rt.inputs[1], rt.inputs[2],
                                      InnerCall.attrs["transpose_a"],
                                      InnerCall.attrs["transpose_b"],
                                      InnerCall.checked_type.dtype)
           ELSE /\ rt.status = "raised"
                /\ rt.output = NoValue
                /\ rt.built = NoValue

C9_Witness ==
    /\ rt_pc = "done"
    /\ rt.routine = "_lower_matmul"
    /\ rt.status = "returned"
    /\ InnerCall.attrs["transpose_a"] = TRUE
    /\ InnerCall.attrs["transpose_b"] = FALSE
    /\ rt.output.transa = TRUE
    /\ rt.output.transb = FALSE

\* the routine of the same operator kind for each composite name
C10_SameKind ==
    [k \in {"cublas.matmul", "cublas.batch_matmul", "cublas.dense"} |->
        CASE k = "cublas.matmul" -> "_lower_matmul"
          [] k = "cublas.batch_matmul" -> "_lower_batch_matmul"
          [] k = "cublas.dense" -> "_lower_dense"]

\* C10: once the module is loaded every composite name of pattern_table() is a
\* key of _LOWER_MAP, mapped by the module's own registrations to the routine
\* of the same operator kind; a registration never removes a key; so the
\* missing-routine assertion never fires for a composite of the pattern table.
C10_RegistryCoversPatterns ==
    /\ [](Loaded => PatternNames \subseteq DOMAIN _LOWER_MAP)
    /\ []((Loaded /\ nregs = 0) => _LOWER_MAP = C10_SameKind)
    /\ [][DOMAIN _LOWER_MAP \subseteq DOMAIN _LOWER_MAP']_vars
    /\ []((rt_pc = "done" /\ TagOf(partition) \in PatternNames)
            => (rt.routine = _LOWER_MAP[TagOf(partition)]
                  /\ ~(rt.status = "raised" /\ rt.error.type = "AssertionError")))

C10_Witness ==
    /\ rt_pc = "done"
    /\ nregs > 0
    /\ "other.op" \in DOMAIN _LOWER_MAP
    /\ _LOWER_MAP["cublas.dense"] = "_lower_ext"
    /\ TagOf(partition) = "cublas.dense"
    /\ rt.status = "returned"

====
